---- MODULE Spec2Model ----
(***************************************************************************)
(* A model of the malloc-lab allocators of this repository:                *)
(*   "explicit"  src/malloc-lab/mm.c      one doubly linked free list,     *)
(*                                        best-fit search                  *)
(*   "segbest"   src/unnamed/part_000     16 segregated lists, best-fit    *)
(*   "segfirst"  src/unnamed/part_001     16 segregated lists, first-fit   *)
(*                                                                         *)
(* The heap is modelled byte by byte.  mem maps a word address to the four *)
(* bytes stored there; a byte that was never written reads as the token    *)
(* -(a+1), the unknown content the region had at address a when the        *)
(* provider handed it out.  Headers and footers are 4-byte little-endian   *)
(* words, list links are 8-byte little-endian pointers, exactly as the     *)
(* PUT/GET/SET_PRED/SET_SUCC macros store them.                            *)
(*                                                                         *)
(* Every C function is an operator from an allocator state record          *)
(*   [mem, mem_brk, heap_listp, free_listp, headers, sbrk, ub]             *)
(* to a result [st |-> state after, r |-> returned value].  sbrk is the    *)
(* log of the provider requests made during the current call, ub records   *)
(* that the call executed undefined behaviour (place on a null block).     *)
(***************************************************************************)
EXTENDS Integers, Sequences, FiniteSets, TLC

VARIABLES
    variant,     \* which of the three source files is linked
    pc,          \* "uninit" before mm_init, "ready" after it returned 0, "failed" after -1
    mem,         \* heap bytes written so far
    mem_brk,     \* the provider's break: one past the last byte of the region
    heap_listp,  \* prologue payload pointer (pPrologueData in the segregated files)
    free_listp,  \* head of the explicit free list (mm.c)
    headers,     \* heads of the segregated lists (part_000, part_001)
    live,        \* harness: payload pointer -> size requested, for the blocks it holds
    last,        \* harness: the call just completed, its arguments and its result
    nops,        \* harness: number of allocate/free/resize calls made
    hist         \* harness: the calls completed so far, where a run records them

vars == <<variant, pc, mem, mem_brk, heap_listp, free_listp, headers, live, last, nops, hist>>

-----------------------------------------------------------------------------
(* Program constants *)

NULL == 0
ALIGNMENT == 8
WSIZE == 4
DSIZE == 8
CHUNKSIZE == 4096
NLISTS == 16

ALIGN(size) == ((size + (ALIGNMENT - 1)) \div 8) * 8
MIN_FREE_BLK == ALIGN(WSIZE + WSIZE + DSIZE + DSIZE)


-----------------------------------------------------------------------------
(* Bounds of the model *)

\* number of allocate/free/resize calls explored after mm_init
MaxOps == 4
\* the same, in the specification over the wide set of request sizes
MaxOpsWide == 2
\* bytes the provider is able to hand out in total
MaxHeap == 8400
\* bytes of a block's payload the calling program fills with its pattern
MaxFill == 64
\* calls after mm_init in the runs over the requests of 90, 100 and 200 bytes
MaxOpsReuse == 4
\* calls after mm_init in the runs over the requests of 16 and 17 bytes
MaxOpsDeep == 6

\* first address of the region the provider manages (8-aligned, not null)
mem_start_brk == 8
mem_max_addr == mem_start_brk + MaxHeap

-----------------------------------------------------------------------------
(* size_t: 64-bit unsigned, as four 16-bit limbs, least significant first. *)
(* Request sizes are size_t, so the adjusted-size arithmetic wraps at 2^64 *)
(* as it does in the build.                                                *)

LIMB == 2^16
SZ(i) == <<i % LIMB, (i \div LIMB) % LIMB, 0, 0>>
SIZE_MAX == <<LIMB - 1, LIMB - 1, LIMB - 1, LIMB - 1>>

\* x + k modulo 2^64, for 0 <= k < 2^16
SzAdd(x, k) ==
    LET s1 == x[1] + k
        s2 == x[2] + (s1 \div LIMB)
        s3 == x[3] + (s2 \div LIMB)
        s4 == x[4] + (s3 \div LIMB)
    IN  <<s1 % LIMB, s2 % LIMB, s3 % LIMB, s4 % LIMB>>

\* x - k modulo 2^64, for 0 <= k < 2^16
SzSub(x, k) ==
    LET d1 == x[1] - k
        b1 == IF d1 < 0 THEN 1 ELSE 0
        d2 == x[2] - b1
        b2 == IF d2 < 0 THEN 1 ELSE 0
        d3 == x[3] - b2
        b3 == IF d3 < 0 THEN 1 ELSE 0
        d4 == x[4] - b3
    IN  <<d1 % LIMB, d2 % LIMB, d3 % LIMB, d4 % LIMB>>

\* x / d (unsigned division), for 0 < d < 2^15
SzDiv(x, d) ==
    LET q4 == x[4] \div d
        v3 == (x[4] % d) * LIMB + x[3]
        q3 == v3 \div d
        v2 == (v3 % d) * LIMB + x[2]
        q2 == v2 \div d
        v1 == (v2 % d) * LIMB + x[1]
        q1 == v1 \div d
    IN  <<q1, q2, q3, q4>>

\* k * x modulo 2^64, for 0 <= k < 2^15
SzMul(k, x) ==
    LET p1 == k * x[1]
        p2 == k * x[2] + (p1 \div LIMB)
        p3 == k * x[3] + (p2 \div LIMB)
        p4 == k * x[4] + (p3 \div LIMB)
    IN  <<p1 % LIMB, p2 % LIMB, p3 % LIMB, p4 % LIMB>>

SzLess(x, y) ==
    \/ x[4] < y[4]
    \/ x[4] = y[4] /\ x[3] < y[3]
    \/ x[4] = y[4] /\ x[3] = y[3] /\ x[2] < y[2]
    \/ x[4] = y[4] /\ x[3] = y[3] /\ x[2] = y[2] /\ x[1] < y[1]

SzLeq(x, y) == ~SzLess(y, x)

\* #define MAX(x, y) ((x) > (y) ? (x) : (y)), on size_t
MAX(x, y) == IF SzLess(y, x) THEN x ELSE y

\* the integer a size_t stands for.  Block sizes and addresses are integers
\* in the model; a size_t is turned into one only after a comparison has
\* bounded it by a block size or by the room the provider has left.  A
\* size_t the integers cannot hold has no value here.
SzInt(x) == CHOOSE i \in {x[1] + LIMB * x[2]} : SZ(i) = x

-----------------------------------------------------------------------------
(* Memory.  mem maps a word address (a multiple of 4) to the four bytes   *)
(* stored there, lowest address first.                                     *)

\* the word at word address w; bytes never written read as their tokens
RdW(m, w) == IF w \in DOMAIN m THEN m[w] ELSE <<-(w + 1), -(w + 2), -(w + 3), -(w + 4)>>

\* the byte at address a
Rd(m, a) == RdW(m, a - (a % 4))[(a % 4) + 1]

\* PACK(size, alloc) is size | alloc with alloc in {0, 1}
PACK(size, alloc) == IF alloc = 1 /\ size % 2 = 1 THEN size ELSE size + alloc

\* the unsigned int held by the four bytes w, little-endian
LE32(w) == w[1] + 256 * w[2] + 65536 * w[3] + 16777216 * w[4]

\* *(unsigned int *)p (p is word aligned throughout the code)
GET(s, p) == LE32(RdW(s.mem, p))

\* *(unsigned int *)p = val, the value cut to 32 bits (the model's values fit)
PUT(s, p, val) ==
    [s EXCEPT !.mem =
        (p :> <<val % 256, (val \div 256) % 256, (val \div 65536) % 256,
                (val \div 16777216) % 256>>) @@ @]

\* v & ~0x7
SIZE_BITS(v) == v - (v % 8)

GET_SIZE(s, p) == SIZE_BITS(GET(s, p))
GET_ALLOC(s, p) == GET(s, p) % 2

HDRP(bp) == bp - WSIZE
FTRP(s, bp) == bp + GET_SIZE(s, HDRP(bp)) - DSIZE
NEXT_BLKP(s, bp) == bp + GET_SIZE(s, bp - WSIZE)
PREV_BLKP(s, bp) == bp - GET_SIZE(s, bp - DSIZE)

\* an 8-byte pointer read; the model's addresses fit the low word, so a
\* non-zero high word is a wild pointer, read as -1
GET_PTR(s, p) == IF GET(s, p + WSIZE) = 0 THEN GET(s, p) ELSE -1
SET_PTR(s, p, ptr) == PUT(PUT(s, p, ptr), p + WSIZE, 0)

PRED_PTR(bp) == bp
SUCC_PTR(bp) == bp + DSIZE
GET_PRED(s, bp) == GET_PTR(s, PRED_PTR(bp))
GET_SUCC(s, bp) == GET_PTR(s, SUCC_PTR(bp))
SET_PRED(s, bp, ptr) == SET_PTR(s, PRED_PTR(bp), ptr)
SET_SUCC(s, bp, ptr) == SET_PTR(s, SUCC_PTR(bp), ptr)

\* PUT(FTRP(bp), val): the footer is found through the header in s
PUT_FTRP(s, bp, val) == PUT(s, FTRP(s, bp), val)

\* PUT(HDRP(bp), val); PUT(FTRP(bp), val);
PUT_HDR_FTR(s, bp, val) == PUT_FTRP(PUT(s, HDRP(bp), val), bp, val)

\* PUT(HDRP(bp), PACK(size, 0)); PUT(FTRP(bp), PACK(size, 0));
\* SET_PRED(bp, NULL); SET_SUCC(bp, NULL);
PUT_FREE_BLOCK(s, bp, size) ==
    SET_SUCC(SET_PRED(PUT_HDR_FTR(s, bp, PACK(size, 0)), bp, NULL), bp, NULL)

-----------------------------------------------------------------------------
(* The memory provider (memlib, an external collaborator): grow(bytes)     *)
(* extends the region by exactly that many bytes and returns the old       *)
(* break, or fails with -1 and changes nothing.  grants[i] says whether    *)
(* the provider is willing to serve the i-th request of the current call.  *)
(* The amount asked is a size_t and is logged as such; a request beyond    *)
(* the room the provider has left is refused.                              *)

mem_sbrk(s, incr, grants) ==
    IF grants[Len(s.sbrk) + 1] /\ SzLeq(incr, SZ(mem_max_addr - s.mem_brk))
    THEN [st |-> [s EXCEPT !.mem_brk = @ + SzInt(incr),
                           !.sbrk = Append(@, <<incr, TRUE>>)],
          r |-> s.mem_brk]
    ELSE [st |-> [s EXCEPT !.sbrk = Append(@, <<incr, FALSE>>)], r |-> -1]

mem_heap_hi(s) == s.mem_brk - 1

-----------------------------------------------------------------------------
(* Free-list maintenance *)

\* part_000 / part_001: size (header included) -> index of its size class
size_to_group(size) ==
    IF SzLeq(size, SZ(32)) THEN 0
    ELSE IF SzLeq(size, SZ(48)) THEN 1
    ELSE IF SzLeq(size, SZ(64)) THEN 2
    ELSE IF SzLeq(size, SZ(96)) THEN 3
    ELSE IF SzLeq(size, SZ(128)) THEN 4
    ELSE IF SzLeq(size, SZ(192)) THEN 5
    ELSE IF SzLeq(size, SZ(256)) THEN 6
    ELSE IF SzLeq(size, SZ(384)) THEN 7
    ELSE IF SzLeq(size, SZ(512)) THEN 8
    ELSE IF SzLeq(size, SZ(768)) THEN 9
    ELSE IF SzLeq(size, SZ(1024)) THEN 10
    ELSE IF SzLeq(size, SZ(1536)) THEN 11
    ELSE IF SzLeq(size, SZ(2048)) THEN 12
    ELSE IF SzLeq(size, SZ(4096)) THEN 13
    ELSE IF SzLeq(size, SZ(8192)) THEN 14
    ELSE 15

\* mutant: the old head is not told of its new predecessor
insert_node_links_nopred(s, bp, head) == SET_SUCC(SET_PRED(s, bp, NULL), bp, head)

\* insert_node: SET_PRED(bp, NULL); SET_SUCC(bp, head);
\* if (head != NULL) SET_PRED(head, bp);
insert_node_links(s, bp, head) ==
    IF head # NULL
    THEN SET_PRED(SET_SUCC(SET_PRED(s, bp, NULL), bp, head), head, bp)
    ELSE SET_SUCC(SET_PRED(s, bp, NULL), bp, head)

\* mutant: bp is linked in behind the head of a list that is not empty
insert_node_behind(s, bp, head, next) ==
    IF next # NULL
    THEN SET_PRED(SET_SUCC(SET_SUCC(SET_PRED(s, bp, head), bp, next), head, bp), next, bp)
    ELSE SET_SUCC(SET_SUCC(SET_PRED(s, bp, head), bp, next), head, bp)

insert_node_x_second(s, bp) ==
    IF s.free_listp = NULL
    THEN [insert_node_links(s, bp, NULL) EXCEPT !.free_listp = bp]
    ELSE insert_node_behind(s, bp, s.free_listp, GET_SUCC(s, s.free_listp))

\* mm.c: push bp at the head of the single list
insert_node_x(s, bp) ==
    [insert_node_links(s, bp, s.free_listp) EXCEPT !.free_listp = bp]

\* part_000 / part_001, insert_node once group is known
insert_node_group(s, bp, group) ==
    [insert_node_links(s, bp, s.headers[group]) EXCEPT !.headers[group] = bp]

\* mutant: the class is taken from the payload size, not the block size
insert_node_s_payload(s, bp) ==
    insert_node_group(s, bp, size_to_group(SZ(GET_SIZE(s, HDRP(bp)) - DSIZE)))

\* part_000 / part_001: push bp at the head of the list of its current size
insert_node_s(s, bp) == insert_node_group(s, bp, size_to_group(SZ(GET_SIZE(s, HDRP(bp)))))

insert_node(s, bp) ==
    IF s.variant = "explicit" THEN insert_node_x(s, bp) ELSE insert_node_s(s, bp)

\* remove_node: if (succ != NULL) SET_PRED(succ, pred);
remove_node_succ(s, pred, succ) == IF succ # NULL THEN SET_PRED(s, succ, pred) ELSE s

\* mm.c, remove_node once pred and succ are read
remove_node_links_x(s, pred, succ) ==
    remove_node_succ(IF pred # NULL THEN SET_SUCC(s, pred, succ)
                     ELSE [s EXCEPT !.free_listp = succ], pred, succ)

\* mutant: the list head is not moved when the first node is unlinked
remove_node_x_nohead(s, bp) ==
    remove_node_succ(IF GET_PRED(s, bp) # NULL
                     THEN SET_SUCC(s, GET_PRED(s, bp), GET_SUCC(s, bp)) ELSE s,
                     GET_PRED(s, bp), GET_SUCC(s, bp))

\* mm.c: unlink bp from the single list
remove_node_x(s, bp) == remove_node_links_x(s, GET_PRED(s, bp), GET_SUCC(s, bp))

\* part_000 / part_001, remove_node once group, pred and succ are read
remove_node_links_s(s, group, pred, succ) ==
    remove_node_succ(IF pred # NULL THEN SET_SUCC(s, pred, succ)
                     ELSE [s EXCEPT !.headers[group] = succ], pred, succ)

\* part_000 / part_001: unlink bp from the list of its current size
remove_node_s(s, bp) ==
    remove_node_links_s(s, size_to_group(SZ(GET_SIZE(s, HDRP(bp)))), GET_PRED(s, bp),
                        GET_SUCC(s, bp))

\* mutant: the block is never unlinked
remove_node_forgotten(s, bp) == s

remove_node(s, bp) ==
    IF s.variant = "explicit" THEN remove_node_x(s, bp) ELSE remove_node_s(s, bp)

\* mutant: the block is indexed without looking at its neighbours
coalesce_none(s, bp) == [st |-> insert_node(s, bp), r |-> bp]

\* PUT(HDRP(PREV_BLKP(bp)), val)
PUT_HDRP_PREV(s, bp, val) == PUT(s, HDRP(PREV_BLKP(s, bp)), val)

\* coalesce, if (!prev_alloc): bp = PREV_BLKP(bp);
coalesce_prev_bp(s, bp, size) == [st |-> s, bp |-> PREV_BLKP(s, bp), size |-> size]

\* coalesce, if (!prev_alloc), from PUT(FTRP(bp), ...) on: size is the sum
coalesce_prev_put(s, bp, size) ==
    coalesce_prev_bp(PUT_HDRP_PREV(PUT_FTRP(s, bp, PACK(size, 0)), bp, PACK(size, 0)),
                     bp, size)

\* coalesce, if (!prev_alloc), after remove_node(PREV_BLKP(bp)) left s
coalesce_prev(s, bp, size) ==
    coalesce_prev_put(s, bp, size + GET_SIZE(s, HDRP(PREV_BLKP(s, bp))))

\* coalesce, if (!next_alloc), after remove_node(NEXT_BLKP(bp)) left s
coalesce_next(s, bp, size) ==
    PUT_HDR_FTR(s, bp, PACK(size + GET_SIZE(s, HDRP(NEXT_BLKP(s, bp))), 0))

\* mutant: the following block is never merged
coalesce_if_next_skip(c, next_alloc) == [st |-> c.st, bp |-> c.bp]

\* coalesce, the second if statement; c holds the state, bp and size the
\* first one left
coalesce_if_next(c, next_alloc) ==
    [st |-> IF next_alloc = 0
            THEN coalesce_next(remove_node(c.st, NEXT_BLKP(c.st, c.bp)), c.bp, c.size)
            ELSE c.st,
     bp |-> c.bp]

\* coalesce: insert_node(bp); return bp;
coalesce_insert(c) == [st |-> insert_node(c.st, c.bp), r |-> c.bp]

\* merge the free block bp with its free neighbours and index the result
coalesce(s, bp) ==
    coalesce_insert(
        coalesce_if_next(
            IF GET_ALLOC(s, FTRP(s, PREV_BLKP(s, bp))) = 0
            THEN coalesce_prev(remove_node(s, PREV_BLKP(s, bp)), bp,
                               GET_SIZE(s, HDRP(bp)))
            ELSE [st |-> s, bp |-> bp, size |-> GET_SIZE(s, HDRP(bp))],
            GET_ALLOC(s, HDRP(NEXT_BLKP(s, bp)))))

\* extend_heap: PUT(HDRP(NEXT_BLKP(bp)), PACK(0, 1)), the new epilogue header
extend_heap_epilogue(s, bp) == PUT(s, HDRP(NEXT_BLKP(s, bp)), PACK(0, 1))

\* mutant: the new block is indexed as it is, not merged with a free tail
extend_heap_sbrk_nomerge(g, size) ==
    IF g.r = -1 THEN [st |-> g.st, r |-> NULL]
    ELSE coalesce_none(extend_heap_epilogue(PUT_HDR_FTR(g.st, g.r, PACK(SzInt(size), 0)),
                                            g.r), g.r)

\* extend_heap after mem_sbrk returned g
extend_heap_sbrk(g, size) ==
    IF g.r = -1 THEN [st |-> g.st, r |-> NULL]
    ELSE coalesce(extend_heap_epilogue(PUT_HDR_FTR(g.st, g.r, PACK(SzInt(size), 0)), g.r),
                  g.r)

\* size = (words % 2) ? (words + 1) * WSIZE : words * WSIZE;
extend_heap_size(words) ==
    IF words[1] % 2 = 1 THEN SzMul(WSIZE, SzAdd(words, 1)) ELSE SzMul(WSIZE, words)

\* grow the heap by an even number of words
extend_heap(s, words, grants) ==
    extend_heap_sbrk(mem_sbrk(s, extend_heap_size(words), grants), extend_heap_size(words))

-----------------------------------------------------------------------------
(* Fit search.  A list walk is given as much fuel as the heap could hold   *)
(* nodes; a walk that runs out of fuel is a cycle, on which the C loop     *)
(* never returns: the search then yields HANG.                             *)

HANG == -2
Fuel(s) == (s.mem_brk - mem_start_brk) \div MIN_FREE_BLK + 1
\* (size_t)(-1)
SIZE_T_MINUS1 == SIZE_MAX

\* mm.c, the loop body at bp, whose size is csize
RECURSIVE find_fit_loop_x(_, _, _, _, _, _)
\* mutant: a block as small as the best so far replaces it
find_fit_body_x_last(s, asize, bp, csize, best, best_size, fuel) ==
    IF SzLeq(asize, SZ(csize)) /\ SZ(csize) = asize THEN bp
    ELSE IF SzLeq(asize, SZ(csize)) /\ SzLeq(SZ(csize), best_size)
         THEN find_fit_loop_x(s, asize, GET_SUCC(s, bp), bp, SZ(csize), fuel - 1)
    ELSE find_fit_loop_x(s, asize, GET_SUCC(s, bp), best, best_size, fuel - 1)

find_fit_body_x(s, asize, bp, csize, best, best_size, fuel) ==
    IF SzLeq(asize, SZ(csize)) /\ SZ(csize) = asize THEN bp
    ELSE IF SzLeq(asize, SZ(csize)) /\ SzLess(SZ(csize), best_size)
         THEN find_fit_loop_x(s, asize, GET_SUCC(s, bp), bp, SZ(csize), fuel - 1)
    ELSE find_fit_loop_x(s, asize, GET_SUCC(s, bp), best, best_size, fuel - 1)

\* mm.c: best fit over the single list, an exact fit returned at once
find_fit_loop_x(s, asize, bp, best, best_size, fuel) ==
    IF bp = NULL THEN best
    ELSE IF fuel = 0 THEN HANG
    ELSE find_fit_body_x(s, asize, bp, GET_SIZE(s, HDRP(bp)), best, best_size, fuel)

\* mutant: the first block of the list that is large enough
RECURSIVE find_fit_first_loop(_, _, _, _)
find_fit_first_loop(s, asize, bp, fuel) ==
    IF bp = NULL THEN NULL
    ELSE IF fuel = 0 THEN HANG
    ELSE IF SzLeq(asize, SZ(GET_SIZE(s, HDRP(bp)))) THEN bp
    ELSE find_fit_first_loop(s, asize, GET_SUCC(s, bp), fuel - 1)

find_fit_x_first(s, asize) == find_fit_first_loop(s, asize, s.free_listp, Fuel(s))

find_fit_x(s, asize) ==
    find_fit_loop_x(s, asize, s.free_listp, NULL, SIZE_T_MINUS1, Fuel(s))

\* part_000, the inner loop body at bp, whose size is capacity
RECURSIVE find_fit_loop_b(_, _, _, _, _, _, _)
find_fit_body_b(s, adjustedSize, group, bp, capacity, pBestFit, bestAmountOfWaste, fuel) ==
    IF SzLeq(adjustedSize, SZ(capacity)) /\ capacity - SzInt(adjustedSize) = 0 THEN bp
    ELSE IF /\ SzLeq(adjustedSize, SZ(capacity))
            /\ SzLess(SZ(capacity - SzInt(adjustedSize)), bestAmountOfWaste)
         THEN find_fit_loop_b(s, adjustedSize, group, GET_SUCC(s, bp), bp,
                              SZ(capacity - SzInt(adjustedSize)), fuel - 1)
    ELSE find_fit_loop_b(s, adjustedSize, group, GET_SUCC(s, bp), pBestFit,
                         bestAmountOfWaste, fuel - 1)

\* part_000: best fit over the classes size_to_group(adjustedSize) ..
\* NLISTS-1; at the end of a list the walk goes on with the next class
find_fit_loop_b(s, adjustedSize, group, bp, pBestFit, bestAmountOfWaste, fuel) ==
    IF group >= NLISTS THEN pBestFit
    ELSE IF bp = NULL
         THEN find_fit_loop_b(s, adjustedSize, group + 1,
                              IF group + 1 < NLISTS THEN s.headers[group + 1] ELSE NULL,
                              pBestFit, bestAmountOfWaste, Fuel(s))
    ELSE IF fuel = 0 THEN HANG
    ELSE find_fit_body_b(s, adjustedSize, group, bp, GET_SIZE(s, HDRP(bp)), pBestFit,
                         bestAmountOfWaste, fuel)

find_fit_from_b(s, adjustedSize, group) ==
    find_fit_loop_b(s, adjustedSize, group, s.headers[group], NULL, SIZE_T_MINUS1,
                    Fuel(s))

find_fit_b(s, adjustedSize) == find_fit_from_b(s, adjustedSize, size_to_group(adjustedSize))

\* part_001: first fit over the classes size_to_group(asize) .. NLISTS-1
RECURSIVE find_fit_loop_f(_, _, _, _, _)
find_fit_loop_f(s, asize, i, bp, fuel) ==
    IF i >= NLISTS THEN NULL
    ELSE IF bp = NULL
         THEN find_fit_loop_f(s, asize, i + 1,
                              IF i + 1 < NLISTS THEN s.headers[i + 1] ELSE NULL, Fuel(s))
    ELSE IF fuel = 0 THEN HANG
    ELSE IF SzLeq(asize, SZ(GET_SIZE(s, HDRP(bp)))) THEN bp
    ELSE find_fit_loop_f(s, asize, i, GET_SUCC(s, bp), fuel - 1)

find_fit_from_f(s, asize, group) ==
    find_fit_loop_f(s, asize, group, s.headers[group], Fuel(s))

find_fit_f(s, asize) == find_fit_from_f(s, asize, size_to_group(asize))

find_fit(s, asize) ==
    IF s.variant = "explicit" THEN find_fit_x(s, asize)
    ELSE IF s.variant = "segbest" THEN find_fit_b(s, asize)
    ELSE find_fit_f(s, asize)

-----------------------------------------------------------------------------
(* place: allocate asize bytes at the front of the free block bp *)

\* place, the split: the remainder after bp becomes a free block, indexed
place_split(s, bp, rsize) ==
    insert_node(PUT_FREE_BLOCK(s, NEXT_BLKP(s, bp), rsize), NEXT_BLKP(s, bp))

\* mutant: the block is split as soon as the remainder holds 2 * DSIZE bytes
place_removed_small(s, bp, asize, csize) ==
    IF csize - asize >= 2 * DSIZE
    THEN place_split(PUT_HDR_FTR(s, bp, PACK(asize, 1)), bp, csize - asize)
    ELSE PUT_HDR_FTR(s, bp, PACK(csize, 1))

\* mutant: a block taken whole gets its header marked, not its footer
place_removed_nofooter(s, bp, asize, csize) ==
    IF csize - asize >= MIN_FREE_BLK
    THEN place_split(PUT_HDR_FTR(s, bp, PACK(asize, 1)), bp, csize - asize)
    ELSE PUT(s, HDRP(bp), PACK(csize, 1))

\* place after remove_node(bp) left s
place_removed(s, bp, asize, csize) ==
    IF csize - asize >= MIN_FREE_BLK
    THEN place_split(PUT_HDR_FTR(s, bp, PACK(asize, 1)), bp, csize - asize)
    ELSE PUT_HDR_FTR(s, bp, PACK(csize, 1))

\* place once csize is read
place_csize(s, bp, asize, csize) ==
    IF SzLess(SZ(csize), asize) THEN [s EXCEPT !.ub = "place: csize < asize"]
    ELSE place_removed(remove_node(s, bp), bp, SzInt(asize), csize)

\* On a null block (or when find_fit did not return) place reads the word
\* before address 0; with csize < asize the unsigned csize - asize wraps and
\* place writes past the block.  Both are recorded in ub, the heap untouched.
place(s, bp, asize) ==
    IF bp = NULL \/ bp = HANG THEN [s EXCEPT !.ub = "place(NULL)"]
    ELSE place_csize(s, bp, asize, GET_SIZE(s, HDRP(bp)))

-----------------------------------------------------------------------------
(* The public operations *)

\* the adjusted size before the MIN_FREE_BLK floor
adjusted_size_raw(size) ==
    IF SzLeq(size, SZ(DSIZE)) THEN SZ(2 * DSIZE)
    ELSE SzMul(DSIZE, SzDiv(SzAdd(SzAdd(size, DSIZE), DSIZE - 1), DSIZE))

\* if (asize < MIN_FREE_BLK) asize = MIN_FREE_BLK;
adjusted_size_floor(a) == IF SzLess(a, SZ(MIN_FREE_BLK)) THEN SZ(MIN_FREE_BLK) ELSE a

\* the adjusted block size of a request of size bytes (size_t arithmetic)
adjusted_size(size) == adjusted_size_floor(adjusted_size_raw(size))

\* place(bp, asize); return bp;
mm_malloc_place(s, bp, asize) == [st |-> place(s, bp, asize), r |-> bp]

\* mm.c, mm_malloc after extend_heap returned e
mm_malloc_extended(e, asize) ==
    IF e.r = NULL THEN [st |-> e.st, r |-> NULL] ELSE mm_malloc_place(e.st, e.r, asize)

\* mm.c, mm_malloc once asize is computed and find_fit returned bp
mm_malloc_fit_x(s, asize, bp, grants) ==
    IF bp # NULL THEN mm_malloc_place(s, bp, asize)
    ELSE mm_malloc_extended(extend_heap(s, SzDiv(MAX(asize, SZ(CHUNKSIZE)), WSIZE), grants),
                            asize)

\* mm.c, mm_malloc once asize is computed
mm_malloc_asize_x(s, asize, grants) ==
    mm_malloc_fit_x(s, asize, find_fit(s, asize), grants)

\* mm.c
mm_malloc_x(s, size, grants) ==
    IF size = SZ(0) THEN [st |-> s, r |-> NULL]
    ELSE mm_malloc_asize_x(s, adjusted_size(size), grants)

\* mutant: the size of the last block is returned whether it is free or not
getFreeSizeOfTail_anyblock(s) == GET_SIZE(s, (mem_heap_hi(s) + 1 - WSIZE) - WSIZE)

\* getFreeSizeOfTail once sizeOfLeftAdjacent is read at pFooterOfLeftAdjacent
getFreeSizeOfTail_block(s, pFooterOfLeftAdjacent, sizeOfLeftAdjacent) ==
    IF GET_ALLOC(s, HDRP(pFooterOfLeftAdjacent + DSIZE - sizeOfLeftAdjacent)) # 0
    THEN 0 ELSE sizeOfLeftAdjacent

\* part_000 (getFreeSizeOfTail) / part_001 (tail_free_size): size of the
\* free block just before the epilogue, 0 when that block is allocated
getFreeSizeOfTail(s) ==
    getFreeSizeOfTail_block(s, (mem_heap_hi(s) + 1 - WSIZE) - WSIZE,
                            GET_SIZE(s, (mem_heap_hi(s) + 1 - WSIZE) - WSIZE))

\* part_000 / part_001, step 3 of mm_malloc: the second search, and place
mm_malloc_refit(s, adjustedSize) ==
    mm_malloc_place(s, find_fit(s, adjustedSize), adjustedSize)

\* part_000 / part_001, mm_malloc after extend_heap returned e
mm_malloc_grown(e, adjustedSize) ==
    IF e.r = NULL THEN [st |-> e.st, r |-> NULL]
    ELSE mm_malloc_refit(e.st, adjustedSize)

\* mutant: the extension is never smaller than CHUNKSIZE
mm_malloc_lacking_chunk(s, adjustedSize, lackingSize, grants) ==
    IF lackingSize # SZ(0)
    THEN mm_malloc_grown(extend_heap(s, SzDiv(MAX(lackingSize, SZ(CHUNKSIZE)), WSIZE),
                                     grants),
                         adjustedSize)
    ELSE mm_malloc_refit(s, adjustedSize)

\* part_000 / part_001, step 2 of mm_malloc, once lackingSize is computed
mm_malloc_lacking(s, adjustedSize, lackingSize, grants) ==
    IF lackingSize # SZ(0)
    THEN mm_malloc_grown(extend_heap(s, SzDiv(SzAdd(lackingSize, WSIZE - 1), WSIZE),
                                     grants),
                         adjustedSize)
    ELSE mm_malloc_refit(s, adjustedSize)

\* mutant: the heap is extended by the whole adjusted size
mm_malloc_tail_full(s, adjustedSize, freeSizeOfTail, grants) ==
    mm_malloc_lacking(s, adjustedSize, adjustedSize, grants)

\* part_000 / part_001, step 2 of mm_malloc, once freeSizeOfTail is read
mm_malloc_tail(s, adjustedSize, freeSizeOfTail, grants) ==
    mm_malloc_lacking(s, adjustedSize,
                      IF SzLess(SZ(freeSizeOfTail), adjustedSize)
                      THEN SzSub(adjustedSize, freeSizeOfTail) ELSE SZ(0), grants)

\* part_000 / part_001, mm_malloc once find_fit returned bp
mm_malloc_fit_s(s, adjustedSize, bp, grants) ==
    IF bp # NULL THEN mm_malloc_place(s, bp, adjustedSize)
    ELSE mm_malloc_tail(s, adjustedSize, getFreeSizeOfTail(s), grants)

\* part_000 / part_001, mm_malloc once adjustedSize is computed
mm_malloc_asize_s(s, adjustedSize, grants) ==
    mm_malloc_fit_s(s, adjustedSize, find_fit(s, adjustedSize), grants)

\* part_000 / part_001
mm_malloc_s(s, size, grants) ==
    IF size = SZ(0) THEN [st |-> s, r |-> NULL]
    ELSE mm_malloc_asize_s(s, adjusted_size(size), grants)

\* a request of 0 bytes becomes a request of 1 byte
nonzero(size) == IF size = SZ(0) THEN SZ(1) ELSE size

\* mutant: a request of 0 bytes is served like a request of 1 byte
mm_malloc_nozero(s, size, grants) ==
    IF s.variant = "explicit" THEN mm_malloc_x(s, nonzero(size), grants)
    ELSE mm_malloc_s(s, nonzero(size), grants)

mm_malloc(s, size, grants) ==
    IF s.variant = "explicit" THEN mm_malloc_x(s, size, grants)
    ELSE mm_malloc_s(s, size, grants)

\* mutant: the freed block is indexed without being merged
mm_free_nomerge(s, bp) ==
    IF bp = NULL THEN s
    ELSE coalesce_none(PUT_FREE_BLOCK(s, bp, GET_SIZE(s, HDRP(bp))), bp).st

\* a free that releases nothing
mm_free_leak(s, bp) == s

mm_free(s, bp) ==
    IF bp = NULL THEN s
    ELSE coalesce(PUT_FREE_BLOCK(s, bp, GET_SIZE(s, HDRP(bp))), bp).st

\* the byte memcpy leaves at byte i (1..4) of word w
memcpy_byte(m, dst, src, n, w, i) ==
    IF w + i - 1 >= dst /\ w + i - 1 < dst + n
    THEN Rd(m, src + (w + i - 1 - dst))
    ELSE RdW(m, w)[i]

\* memcpy(dst, src, n): n bytes, the other bytes of a word partly covered kept
memcpy(s, dst, src, n) ==
    IF n <= 0 THEN s
    ELSE [s EXCEPT !.mem =
             [w \in {a - (a % 4) : a \in dst .. (dst + n - 1)} |->
                 <<memcpy_byte(s.mem, dst, src, n, w, 1),
                   memcpy_byte(s.mem, dst, src, n, w, 2),
                   memcpy_byte(s.mem, dst, src, n, w, 3),
                   memcpy_byte(s.mem, dst, src, n, w, 4)>>] @@ @]

\* size_t copySize = oldsize - DSIZE; if (size < copySize) copySize = size;
copySize(size, oldsize) ==
    IF SzLess(size, SZ(oldsize - DSIZE)) THEN SzInt(size) ELSE oldsize - DSIZE

\* mutant: the old block is freed before the new one is requested
mm_realloc_moved_nofree(m, bp, size, oldsize) ==
    IF m.r = NULL THEN [st |-> m.st, r |-> NULL]
    ELSE [st |-> memcpy(m.st, m.r, bp, copySize(size, oldsize)), r |-> m.r]

mm_realloc_move_freefirst(s, bp, size, grants) ==
    mm_realloc_moved_nofree(mm_malloc(mm_free(s, bp), size, grants), bp, size,
                            GET_SIZE(s, HDRP(bp)))

\* mm_realloc after mm_malloc returned m: copy, free the old block
mm_realloc_moved(m, bp, size, oldsize) ==
    IF m.r = NULL THEN [st |-> m.st, r |-> NULL]
    ELSE [st |-> mm_free(memcpy(m.st, m.r, bp, copySize(size, oldsize)), bp),
          r |-> m.r]

\* mm_realloc, last part: malloc a new block, copy, free the old one
mm_realloc_move(s, bp, size, grants) ==
    mm_realloc_moved(mm_malloc(s, size, grants), bp, size, GET_SIZE(s, HDRP(bp)))

\* mm_realloc, the split of both in-place paths, after the header and the
\* footer of bp are set to asize: the remainder becomes a free block
mm_realloc_remainder(s, bp, remain) == PUT_FREE_BLOCK(s, NEXT_BLKP(s, bp), remain)

\* mm_realloc, asize <= oldsize, remain >= MIN_FREE_BLK: coalesce(nbp)
mm_realloc_split(s, bp) == coalesce(s, NEXT_BLKP(s, bp)).st

\* mm_realloc, asize <= oldsize: split off a remainder of MIN_FREE_BLK or more
mm_realloc_shrink(s, bp, asize, oldsize) ==
    IF oldsize - asize >= MIN_FREE_BLK
    THEN mm_realloc_split(mm_realloc_remainder(PUT_HDR_FTR(s, bp, PACK(asize, 1)), bp,
                                               oldsize - asize), bp)
    ELSE s

\* mm_realloc, growing into the next block, remain >= MIN_FREE_BLK:
\* insert_node(nbp)
mm_realloc_grow_split(s, bp) == insert_node(s, NEXT_BLKP(s, bp))

\* mm_realloc, growing into the next block after remove_node(next) and the
\* header and the footer of bp are set to capacity
mm_realloc_grow(s, bp, asize, capacity) ==
    IF capacity - asize >= MIN_FREE_BLK
    THEN mm_realloc_grow_split(
             mm_realloc_remainder(PUT_HDR_FTR(s, bp, PACK(asize, 1)), bp,
                                  capacity - asize), bp)
    ELSE s

\* mm_realloc once oldsize, asize and next are computed
mm_realloc_sized(s, bp, size, oldsize, asize, next, grants) ==
    IF SzLeq(asize, SZ(oldsize))
    THEN [st |-> mm_realloc_shrink(s, bp, SzInt(asize), oldsize), r |-> bp]
    ELSE IF /\ GET_ALLOC(s, HDRP(next)) = 0
            /\ SzLeq(asize, SZ(oldsize + GET_SIZE(s, HDRP(next))))
         THEN [st |-> mm_realloc_grow(
                          PUT_HDR_FTR(remove_node(s, next), bp,
                                      PACK(oldsize + GET_SIZE(s, HDRP(next)), 1)),
                          bp, SzInt(asize), oldsize + GET_SIZE(s, HDRP(next))),
               r |-> bp]
    ELSE mm_realloc_move(s, bp, size, grants)

\* mutant: every resize moves the block
mm_realloc_resize_move(s, bp, size, grants) == mm_realloc_move(s, bp, size, grants)

\* mm_realloc, middle part (bp not null, size not 0): resize in place when
\* the block, alone or with a free successor, is large enough
mm_realloc_resize(s, bp, size, grants) ==
    mm_realloc_sized(s, bp, size, GET_SIZE(s, HDRP(bp)), adjusted_size(size),
                     NEXT_BLKP(s, bp), grants)

\* mutant: a size of 0 is not told apart from the other sizes
mm_realloc_nozero(s, bp, size, grants) ==
    IF bp = NULL THEN mm_malloc(s, size, grants)
    ELSE mm_realloc_resize(s, bp, size, grants)

\* mm_realloc, first part: the null block and the size 0
mm_realloc(s, bp, size, grants) ==
    IF bp = NULL THEN mm_malloc(s, size, grants)
    ELSE IF size = SZ(0) THEN [st |-> mm_free(s, bp), r |-> NULL]
    ELSE mm_realloc_resize(s, bp, size, grants)

\* mm_init after the first mem_sbrk returned p: padding, prologue, epilogue
mm_init_format(s, p) ==
    [PUT(PUT(PUT(PUT(s, p, 0), p + (1 * WSIZE), PACK(DSIZE, 1)),
             p + (2 * WSIZE), PACK(DSIZE, 1)), p + (3 * WSIZE), PACK(0, 1))
       EXCEPT !.heap_listp = p + (2 * WSIZE),
              !.free_listp = NULL,
              !.headers = [i \in 0 .. (NLISTS - 1) |-> NULL]]

\* mutant: the alignment padding word before the prologue is left out
mm_init_format_nopad(s, p) ==
    [PUT(PUT(PUT(s, p, PACK(DSIZE, 1)), p + (1 * WSIZE), PACK(DSIZE, 1)),
         p + (2 * WSIZE), PACK(0, 1))
       EXCEPT !.heap_listp = p + (1 * WSIZE),
              !.free_listp = NULL,
              !.headers = [i \in 0 .. (NLISTS - 1) |-> NULL]]

\* mm_init after extend_heap returned e
mm_init_extended(e) == [st |-> e.st, r |-> IF e.r = NULL THEN -1 ELSE 0]

\* mm_init after the first mem_sbrk returned g; a refusal leaves (void *)-1
\* in heap_listp
mm_init_sbrk(g, grants) ==
    IF g.r = -1 THEN [st |-> [g.st EXCEPT !.heap_listp = -1], r |-> -1]
    ELSE mm_init_extended(extend_heap(mm_init_format(g.st, g.r), SZ(CHUNKSIZE \div WSIZE),
                                      grants))

mm_init_sbrk_nopad(g, grants) ==
    IF g.r = -1 THEN [st |-> [g.st EXCEPT !.heap_listp = -1], r |-> -1]
    ELSE mm_init_extended(extend_heap(mm_init_format_nopad(g.st, g.r),
                                      SZ(CHUNKSIZE \div WSIZE), grants))

mm_init_nopad(s, grants) == mm_init_sbrk_nopad(mem_sbrk(s, SZ(3 * WSIZE), grants), grants)

mm_init(s, grants) == mm_init_sbrk(mem_sbrk(s, SZ(4 * WSIZE), grants), grants)

-----------------------------------------------------------------------------
(* The calling program: it initialises the allocator once, then makes      *)
(* allocate/free/resize calls, freeing and resizing only blocks it holds.  *)
(* The provider may refuse any request it is asked.                        *)

Variants == {"explicit", "segbest", "segfirst"}

St == [variant |-> variant, mem |-> mem, mem_brk |-> mem_brk,
       heap_listp |-> heap_listp, free_listp |-> free_listp,
       headers |-> headers, sbrk |-> <<>>, ub |-> ""]

Commit(s) ==
    /\ mem' = s.mem
    /\ mem_brk' = s.mem_brk
    /\ heap_listp' = s.heap_listp
    /\ free_listp' = s.free_listp
    /\ headers' = s.headers

\* the record of a completed call; fresh says that the address returned is
\* not one the caller already held (apart from the block it passed in)
Call(op, p, n, res) ==
    [op |-> op, p |-> p, n |-> n, ret |-> res.r, sbrk |-> res.st.sbrk, ub |-> res.st.ub,
     fresh |-> res.r \notin (DOMAIN live \ {p})]

Drop(f, p) == [q \in DOMAIN f \ {p} |-> f[q]]

\* the provider served, or refused, a request during the call c
GrantedIn(c) == \E i \in DOMAIN c.sbrk : c.sbrk[i][2]
RefusedIn(c) == \E i \in DOMAIN c.sbrk : ~c.sbrk[i][2]

Init ==
    /\ variant \in Variants
    /\ pc = "uninit"
    /\ mem = <<>>
    /\ mem_brk = mem_start_brk
    /\ heap_listp = NULL
    /\ free_listp = NULL
    /\ headers = [i \in 0 .. (NLISTS - 1) |-> NULL]
    /\ live = <<>>
    /\ last = [op |-> "none", p |-> NULL, n |-> SZ(0), ret |-> NULL, sbrk |-> <<>>,
               ub |-> "", fresh |-> TRUE]
    /\ nops = 0
    /\ hist = <<>>

MmInit ==
    /\ pc = "uninit"
    /\ \E grants \in {<<TRUE, TRUE>>, <<TRUE, FALSE>>, <<FALSE, FALSE>>} :
         \E res \in {mm_init(St, grants)} :
             /\ Commit(res.st)
             /\ pc' = IF res.r = 0 THEN "ready" ELSE "failed"
             /\ last' = Call("init", NULL, SZ(0), res)
    /\ UNCHANGED <<variant, live, nops>>

\* The provider is willing (TRUE) or not (FALSE) to serve the request of a
\* call; when the call makes no request both give the same outcome, which is
\* taken once.
Malloc(n, max) ==
    /\ pc = "ready"
    /\ nops < max
    /\ \E willing \in BOOLEAN :
         \E res \in {mm_malloc(St, n, <<willing>>)} :
             /\ willing \/ RefusedIn(res.st)
             /\ Commit(res.st)
             /\ last' = Call("malloc", NULL, n, res)
             /\ live' = IF res.r # NULL THEN (res.r :> n) @@ live ELSE live
    /\ nops' = nops + 1
    /\ UNCHANGED <<variant, pc>>

Free(p, max) ==
    /\ pc = "ready"
    /\ nops < max
    /\ \E res \in {[st |-> mm_free(St, p), r |-> NULL]} :
         /\ Commit(res.st)
         /\ last' = Call("free", p, SZ(0), res)
    /\ live' = Drop(live, p)
    /\ nops' = nops + 1
    /\ UNCHANGED <<variant, pc>>

Realloc(p, n, max) ==
    /\ pc = "ready"
    /\ nops < max
    /\ \E willing \in BOOLEAN :
         \E res \in {mm_realloc(St, p, n, <<willing>>)} :
             /\ willing \/ RefusedIn(res.st)
             /\ Commit(res.st)
             /\ last' = Call("realloc", p, n, res)
             /\ live' = IF res.r # NULL THEN (res.r :> n) @@ Drop(live, p)
                        ELSE IF n = SZ(0) THEN Drop(live, p)
                        ELSE live
    /\ nops' = nops + 1
    /\ UNCHANGED <<variant, pc>>

\* the byte the calling program writes at offset i of the block at p
Pattern(p, i) == 1 + (((p \div DSIZE) * 7 + i) % 120)

\* the word at w once Pattern(p, 0 .. n-1) is stored at p .. p+n-1
memset_word(m, p, n, w) ==
    [i \in 1 .. 4 |-> IF w + i - 1 >= p /\ w + i - 1 < p + n
                      THEN Pattern(p, w + i - 1 - p) ELSE RdW(m, w)[i]]

memset_pattern(m, p, n) ==
    [w \in {a - (a % 4) : a \in p .. (p + n - 1)} |-> memset_word(m, p, n, w)] @@ m

\* the calling program fills the bytes it asked for, MaxFill of them at
\* most, and none beyond the payload of the block it was given
FillLen(p) ==
    IF SzLess(live[p], SZ(MaxFill)) THEN SzInt(live[p])
    ELSE IF GET_SIZE(St, HDRP(p)) - DSIZE < MaxFill THEN GET_SIZE(St, HDRP(p)) - DSIZE
    ELSE MaxFill
Filled(p) == \A i \in 0 .. (FillLen(p) - 1) : Rd(mem, p + i) = Pattern(p, i)

Write(p) ==
    /\ pc = "ready"
    /\ ~Filled(p)
    /\ mem' = memset_pattern(mem, p, FillLen(p))
    /\ last' = [op |-> "write", p |-> p, n |-> live[p], ret |-> NULL, sbrk |-> <<>>,
                ub |-> "", fresh |-> TRUE]
    /\ UNCHANGED <<variant, pc, mem_brk, heap_listp, free_listp, headers, live, nops>>

\* Spec: requests of 0 bytes and of sizes adjusted to 24, 40 and 4088 bytes
Sizes == {SZ(0), SZ(1), SZ(30), SZ(4080)}

\* a run either records each completed call in hist or keeps no record
Log == hist' = Append(hist, last')
NoLog == UNCHANGED hist

Next ==
    \/ MmInit /\ NoLog
    \/ \E n \in Sizes : Malloc(n, MaxOps) /\ NoLog
    \/ \E p \in DOMAIN live : Free(p, MaxOps) /\ NoLog
    \/ \E p \in DOMAIN live, n \in Sizes : Realloc(p, n, MaxOps) /\ NoLog

Spec == Init /\ [][Next]_vars

\* SpecSizes: fewer calls, over the boundary values of the size type: the
\* sizes around the 8- and 16-byte steps, one beyond CHUNKSIZE, 2^32, and
\* the sizes at which the adjusted-size sum wraps; free and resize are also
\* called on the null pointer, and the calling program fills its blocks
SizesWide ==
    {SZ(0), SZ(1), SZ(16), SZ(17), SZ(4089), <<0, 0, 1, 0>>, SzSub(SIZE_MAX, 15),
     SzSub(SIZE_MAX, 14), SIZE_MAX}

NextSizes ==
    \/ MmInit /\ NoLog
    \/ \E n \in SizesWide : Malloc(n, MaxOpsWide) /\ NoLog
    \/ \E p \in DOMAIN live \cup {NULL} : Free(p, MaxOpsWide) /\ NoLog
    \/ \E p \in DOMAIN live \cup {NULL}, n \in SizesWide : Realloc(p, n, MaxOpsWide) /\ NoLog
    \/ \E p \in DOMAIN live : Write(p) /\ NoLog

SpecSizes == Init /\ [][NextSizes]_vars

\* SpecReuse: allocate and free with requests of 90, 100 and 200 bytes
\* (adjusted to 104, 112 and 208), every call recorded
SizesReuse == {SZ(90), SZ(100), SZ(200)}

NextReuse ==
    \/ MmInit /\ Log
    \/ \E n \in SizesReuse : Malloc(n, MaxOpsReuse) /\ Log
    \/ \E p \in DOMAIN live : Free(p, MaxOpsReuse) /\ Log

SpecReuse == Init /\ [][NextReuse]_vars

\* SpecDeep: longer runs of allocate and free with requests of 16 and 17
\* bytes (adjusted to 24 and 32, both of size class 0), every call recorded
SizesDeep == {SZ(16), SZ(17)}

NextDeep ==
    \/ MmInit /\ Log
    \/ \E n \in SizesDeep : Malloc(n, MaxOpsDeep) /\ Log
    \/ \E p \in DOMAIN live : Free(p, MaxOpsDeep) /\ Log

SpecDeep == Init /\ [][NextDeep]_vars

-----------------------------------------------------------------------------
(* Observers: the heap and the free lists as the claims speak of them *)

\* payload pointers of the blocks from bp up to the epilogue, in address order
RECURSIVE BlocksFrom(_, _, _)
BlocksFrom(s, bp, fuel) ==
    IF fuel = 0 \/ bp + WSIZE > s.mem_brk \/ GET_SIZE(s, HDRP(bp)) <= 0 THEN <<>>
    ELSE <<bp>> \o BlocksFrom(s, NEXT_BLKP(s, bp), fuel - 1)

Blocks == BlocksFrom(St, heap_listp + DSIZE, (mem_brk - mem_start_brk) \div DSIZE)

BlockSize(bp) == GET_SIZE(St, HDRP(bp))
BlockAlloc(bp) == GET_ALLOC(St, HDRP(bp))
FreeOf(B) == {B[i] : i \in {j \in DOMAIN B : BlockAlloc(B[j]) = 0}}
FreeBlocks == FreeOf(Blocks)

\* the nodes met by following successor links from head; the walk stops at
\* NULL, at a wild pointer, or when it has run out of fuel (a cycle)
RECURSIVE ListFrom(_, _, _)
ListFrom(s, bp, fuel) ==
    IF bp = NULL THEN <<>>
    ELSE IF fuel = 0 \/ bp < mem_start_brk \/ bp >= s.mem_brk THEN <<HANG>>
    ELSE <<bp>> \o ListFrom(s, GET_SUCC(s, bp), fuel - 1)

RECURSIVE ListsFrom(_, _)
ListsFrom(s, group) ==
    IF group >= NLISTS THEN <<>>
    ELSE ListFrom(s, s.headers[group], Fuel(s)) \o ListsFrom(s, group + 1)

\* all nodes of the free index, in the order find_fit visits them
FreeIndex ==
    IF variant = "explicit" THEN ListFrom(St, free_listp, Fuel(St))
    ELSE ListsFrom(St, 0)

Range(f) == {f[i] : i \in DOMAIN f}

Heap == <<mem, mem_brk, heap_listp, free_listp, headers>>
HeapOf(s) == <<s.mem, s.mem_brk, s.heap_listp, s.free_listp, s.headers>>

-----------------------------------------------------------------------------
(* Claims *)

\* C1: in every variant, after any sequence of calls that respects the
\* preconditions, the payload ranges [p, p + blocksize(p) - 8) of any two
\* blocks the caller holds are disjoint.
C1_PayloadsDisjoint ==
    /\ \A p \in DOMAIN live : \A q \in DOMAIN live :
          p < q => p + BlockSize(p) - DSIZE <= q
    /\ (last.op \in {"malloc", "realloc"} /\ last.ret # NULL) => last.fresh

\* three blocks are held and the last one came from a resize that moved it
C1_Witness ==
    /\ Cardinality(DOMAIN live) >= 3
    /\ last.op = "realloc" /\ last.ret # NULL /\ last.ret # last.p

\* C2: after init and after every completed call, a scan of the heap in
\* address order finds no two consecutive blocks that are both free.
C2_NoAdjacentFree ==
    pc = "ready" =>
        \A i \in DOMAIN Blocks :
            i + 1 \in DOMAIN Blocks =>
                ~(BlockAlloc(Blocks[i]) = 0 /\ BlockAlloc(Blocks[i + 1]) = 0)

\* a free just merged the block with a free neighbour on each side
C2_Witness ==
    /\ last.op = "free"
    /\ \E i \in DOMAIN Blocks :
         /\ BlockAlloc(Blocks[i]) = 0
         /\ Blocks[i] < last.p
         /\ last.p + MIN_FREE_BLK < Blocks[i] + BlockSize(Blocks[i])

\* C3: after init and after every completed call, the blocks reached by
\* following successor links from the list head(s) are exactly the heap
\* blocks whose header has the allocated bit clear, each reached once.
C3_IndexIsFreeBlocks ==
    pc = "ready" =>
        /\ Range(FreeIndex) = FreeBlocks
        /\ Len(FreeIndex) = Cardinality(FreeBlocks)

\* the index holds three free blocks after a call
C3_Witness ==
    /\ pc = "ready"
    /\ Len(FreeIndex) >= 3
    /\ last.op \in {"free", "realloc"}

\* C4: every non-null address returned by allocate or resize is a multiple
\* of 8 bytes away from the start of the provider's region.
C4_Aligned ==
    (last.op \in {"malloc", "realloc"} /\ last.ret # NULL) =>
        (last.ret - mem_start_brk) % ALIGNMENT = 0

\* an allocate that grew the heap returned a block
C4_Witness ==
    /\ last.op = "malloc" /\ last.ret # NULL
    /\ GrantedIn(last)
    /\ nops >= 2

\* C5: for every n > 0 of the size type, an allocate(n) that returns a
\* non-null address p returns a block whose usable region holds n bytes:
\* blocksize(p) - 8 >= n.
C5_UsableAtLeastRequested ==
    (last.op = "malloc" /\ last.ret # NULL) =>
        SzLeq(last.n, SZ(BlockSize(last.ret) - DSIZE))

\* C6: allocate(0) returns null, asks the provider for nothing and changes
\* no header, footer, link or list head.
C6_AllocZeroIsNoop ==
    [][(last'.op = "malloc" /\ last'.n = SZ(0)) =>
          (last'.ret = NULL /\ last'.sbrk = <<>> /\ Heap' = Heap /\ live' = live)]_vars

\* allocate(0) was called while blocks were held and the index held blocks
C6_Witness ==
    /\ last.op = "malloc" /\ last.n = SZ(0) /\ last.ret = NULL
    /\ Cardinality(DOMAIN live) >= 2
    /\ Len(FreeIndex) >= 2

\* C7: for an allocated block p, resize(p, 0) returns null and leaves the
\* allocator in exactly the state free(p) produces from the same state.
C7_ResizeZeroIsFree ==
    [][(last'.op = "realloc" /\ last'.n = SZ(0) /\ last'.p # NULL) =>
          (last'.ret = NULL /\ Heap' = HeapOf(mm_free(St, last'.p)))]_vars

\* resize(p, 0) was called on a block whose two neighbours were free
C7_Witness ==
    /\ last.op = "realloc" /\ last.n = SZ(0) /\ last.p # NULL /\ last.ret = NULL
    /\ last.p \notin DOMAIN live
    /\ \E i \in DOMAIN Blocks :
         /\ BlockAlloc(Blocks[i]) = 0
         /\ Blocks[i] < last.p
         /\ last.p + MIN_FREE_BLK < Blocks[i] + BlockSize(Blocks[i])

\* C8: allocate(n) returns null only when n = 0 or the provider refuses the
\* grow request of the call: with n > 0 and no refusal it returns the
\* address of a block it has marked allocated.
C8_NullOnlyOnZeroOrRefusal ==
    (last.op = "malloc" /\ last.n # SZ(0) /\ ~RefusedIn(last)) =>
        (last.ret # NULL /\ last.ub = "" /\ BlockAlloc(last.ret) = 1)

\* an allocate found no fit while the last block was allocated, grew the
\* heap and returned a block
C8_Witness ==
    /\ last.op = "malloc" /\ last.ret # NULL
    /\ GrantedIn(last)
    /\ \E p \in DOMAIN live : p < last.ret /\ p + BlockSize(p) = last.ret

\* C9: when the provider refuses the grow request of an allocate, or of the
\* allocate-new fallback of a resize, the call returns null and the heap
\* bytes, the heap bounds, the list heads and the blocks held are what they
\* were before the call.
C9_RefusalChangesNothing ==
    [][(last'.op \in {"malloc", "realloc"} /\ RefusedIn(last')) =>
          (last'.ret = NULL /\ Heap' = Heap /\ live' = live)]_vars

\* a resize fell back to allocate-new and the provider refused
C9_Witness ==
    /\ last.op = "realloc" /\ RefusedIn(last) /\ last.ret = NULL
    /\ last.p \in DOMAIN live /\ BlockAlloc(last.p) = 1

\* C10: for an allocated block p whose payload holds known bytes and n > 0,
\* when resize(p, n) returns a non-null q, the first
\* min(n, blocksize_before(p) - 8) bytes at q are the bytes that were at p
\* before the call.  The known bytes are the pattern the calling program
\* stored in the first FillLen(p) bytes of p.
C10_ResizeKeepsPrefix ==
    [][(/\ last'.op = "realloc" /\ last'.p # NULL /\ last'.n # SZ(0)
        /\ last'.ret # NULL
        /\ Filled(last'.p)) =>
          \A i \in 0 .. (FillLen(last'.p) - 1) :
              (i < copySize(last'.n, GET_SIZE(St, HDRP(last'.p)))) =>
                  Rd(mem', last'.ret + i) = Pattern(last'.p, i)]_vars

\* C11: in every variant the sequence init(); a = allocate(100);
\* b = allocate(200); free(a); c = allocate(90) yields c = a: the last
\* allocate reuses the block freed by free(a).
C11_Scenario ==
    /\ Len(hist) = 5
    /\ hist[1].op = "init"
    /\ hist[2].op = "malloc" /\ hist[2].n = SZ(100)
    /\ hist[3].op = "malloc" /\ hist[3].n = SZ(200)
    /\ hist[4].op = "free" /\ hist[4].p = hist[2].ret
    /\ hist[5].op = "malloc" /\ hist[5].n = SZ(90)

C11_ReuseFreed ==
    C11_Scenario => (hist[2].ret # NULL /\ hist[5].ret = hist[2].ret)

\* the sequence was run under the first-fit variant; b lies after a and the
\* remainder of the initial chunk is still free
C11_Witness ==
    /\ C11_Scenario
    /\ variant = "segfirst"
    /\ hist[5].ret = hist[2].ret
    /\ hist[3].ret > hist[2].ret
    /\ Len(FreeIndex) = 1
    /\ DOMAIN live = {hist[3].ret, hist[5].ret}

\* C12: in every variant, after init, allocating three blocks A, B, C of 16
\* bytes (placed one after the other) and then free(B), free(A), free(C)
\* leaves exactly one free block in the heap, whose range covers the three
\* original blocks, and the free index holds exactly that block.
C12_Scenario ==
    /\ Len(hist) = 7
    /\ hist[1].op = "init"
    /\ \A i \in 2 .. 4 : hist[i].op = "malloc" /\ hist[i].n = SZ(16)
    /\ \A i \in 5 .. 7 : hist[i].op = "free"
    /\ hist[5].p = hist[3].ret
    /\ hist[6].p = hist[2].ret
    /\ hist[7].p = hist[4].ret

C12_FullCoalescing ==
    C12_Scenario =>
        /\ hist[2].ret # NULL
        /\ hist[3].ret = hist[2].ret + MIN_FREE_BLK
        /\ hist[4].ret = hist[3].ret + MIN_FREE_BLK
        /\ Cardinality(FreeBlocks) = 1
        /\ Len(FreeIndex) = 1
        /\ FreeIndex[1] \in FreeBlocks
        /\ FreeIndex[1] <= hist[2].ret
        /\ FreeIndex[1] + BlockSize(FreeIndex[1]) >= hist[4].ret + MIN_FREE_BLK

\* the three frees were made in that order and the one free block is the
\* whole initial chunk, starting where A was
C12_Witness ==
    /\ C12_Scenario
    /\ FreeIndex = <<hist[2].ret>>
    /\ BlockSize(hist[2].ret) = CHUNKSIZE
    /\ BlockAlloc(hist[2].ret) = 0

\* C13 as stated: when allocate(n) is called with an adjusted size that
\* exceeds the size of every free block and exceeds CHUNKSIZE, and the
\* provider grants the request, the heap grows during the call by at least
\* the adjusted size and the call returns a block.
C13_Case ==
    /\ last'.op = "malloc"
    /\ GrantedIn(last') /\ ~RefusedIn(last')
    /\ SzLess(SZ(CHUNKSIZE), adjusted_size(last'.n))
    /\ \A f \in FreeBlocks : SzLess(SZ(BlockSize(f)), adjusted_size(last'.n))

C13_GrowsByAdjustedSize ==
    [][C13_Case =>
          /\ SzLeq(adjusted_size(last'.n), SZ(mem_brk' - mem_brk))
          /\ last'.ret # NULL]_vars

\* C13, amended: in that case the explicit variant grows the heap by the
\* adjusted size; the segregated variants grow it by the adjusted size less
\* the size of the free block that ends the heap (nothing less when the
\* last block is allocated); in every variant the call returns a block of
\* at least the adjusted size, marked allocated.
C13_GrowsByShortfall ==
    [][C13_Case =>
          /\ last'.ret # NULL
          /\ GET_ALLOC(St', HDRP(last'.ret)) = 1
          /\ SzLeq(adjusted_size(last'.n), SZ(GET_SIZE(St', HDRP(last'.ret))))
          /\ SZ(mem_brk' - mem_brk) =
                 IF variant = "explicit" THEN adjusted_size(last'.n)
                 ELSE SzSub(adjusted_size(last'.n), getFreeSizeOfTail(St))]_vars

\* a segregated allocate of 4089 bytes (adjusted to 4104) found the free
\* initial chunk of 4096 bytes too small, grew the heap by 8 bytes and
\* returned the merged block
C13_Witness ==
    /\ variant = "segbest"
    /\ last.op = "malloc" /\ last.n = SZ(4089)
    /\ last.sbrk = <<<<SZ(8), TRUE>>>>
    /\ last.ret # NULL
    /\ BlockSize(last.ret) = 4104

\* the nodes of the list of size class g, from its head
ClassList(g) == ListFrom(St, headers[g], Fuel(St))

\* C14: in the segregated variants, after init and after every completed
\* call, every free block of total size S is a member of the list
\* headers[size_to_group(S)] and of no other list, so that find_fit, which
\* scans from the class of S upward, finds a block for a request of size S.
C14_BlockInItsClass ==
    (pc = "ready" /\ variant # "explicit") =>
        \A f \in FreeBlocks :
            /\ \A g \in 0 .. (NLISTS - 1) :
                   (f \in Range(ClassList(g))) <=> (g = size_to_group(SZ(BlockSize(f))))
            /\ find_fit(St, SZ(BlockSize(f))) # NULL

\* a free merged the block with a free block of class 0 before it and the
\* free remainder after it; the result is indexed in class 13 and class 0
\* is empty
C14_Witness ==
    /\ variant # "explicit"
    /\ last.op = "free"
    /\ headers[0] = NULL
    /\ headers[13] # NULL
    /\ headers[13] < last.p
    /\ last.p - headers[13] = MIN_FREE_BLK
    /\ BlockSize(headers[13]) = CHUNKSIZE

\* The adjusted sizes find_fit is asked for: the sizes of the free blocks of
\* the state, and the sizes one and two alignment units away from them
ProbeSizes ==
    {a \in {BlockSize(f) + d : f \in FreeBlocks, d \in {-16, -8, 0, 8}} \cup {MIN_FREE_BLK} :
        a >= MIN_FREE_BLK}

\* the free blocks large enough for a, and those of exactly that size
Fitting(a) == {f \in FreeBlocks : BlockSize(f) >= a}
Exact(a) == {f \in FreeBlocks : BlockSize(f) = a}
LeastOf(F) == {f \in F : \A g \in F : BlockSize(f) <= BlockSize(g)}
LeastWaste(a) == LeastOf(Fitting(a))

\* the first node of the walk L that belongs to S (S holds a node of L)
FirstIn(L, S) == L[CHOOSE i \in DOMAIN L : L[i] \in S /\ \A j \in 1 .. (i - 1) : L[j] \notin S]

\* r is what a best-fit search over the walk L owes for the adjusted size a
BestFitOk(L, a, r) ==
    /\ (r = NULL) <=> (Fitting(a) = {})
    /\ (r # NULL) => (r \in Range(L) /\ r \in LeastWaste(a))
    /\ (Exact(a) # {}) => (r = FirstIn(L, Exact(a)))

\* C15: in the explicit variant, for every reachable free list and adjusted
\* size a, find_fit(a) returns none exactly when no free block has size >= a;
\* otherwise it returns a free block of size >= a of minimal waste, and the
\* first block of size a in list order when there is one.
C15_ExplicitBestFit ==
    (pc = "ready" /\ variant = "explicit") =>
        \A a \in ProbeSizes : BestFitOk(FreeIndex, a, find_fit(St, SZ(a)))

\* the search returned a block that is neither the head of the list nor of
\* the size asked for, although the head was large enough
C15_Witness ==
    /\ pc = "ready" /\ variant = "explicit"
    /\ Len(FreeIndex) >= 2
    /\ \E a \in ProbeSizes :
         /\ BlockSize(FreeIndex[1]) >= a
         /\ find_fit(St, SZ(a)) \notin {NULL, FreeIndex[1]}
         /\ BlockSize(find_fit(St, SZ(a))) > a

\* the nodes find_fit visits for the adjusted size a in the segregated
\* variants: the lists of the classes size_to_group(SZ(a)) and above, in order
ScanFrom(a) == ListsFrom(St, size_to_group(SZ(a)))

\* C16: in the segregated variant (part_000 and part_001), for every
\* reachable state and adjusted size a, find_fit(a) scans only the classes
\* size_to_group(SZ(a)) and above and returns the free block of minimal waste
\* among all free blocks of size >= a of those classes together, and the
\* first block of size a in scan order when there is one.
C16_SegregatedGlobalBest ==
    (pc = "ready" /\ variant # "explicit") =>
        \A a \in ProbeSizes : BestFitOk(ScanFrom(a), a, find_fit(St, SZ(a)))

\* C17: as the header comment of mm.c states, the fit search of the
\* explicit variant is first-fit: find_fit(a) returns the first block in
\* free-list order (from the head) whose size is >= a, for every reachable
\* free list and every adjusted size a.  (find_fit of mm.c keeps the
\* smallest block that is large enough instead.)
C17_ExplicitFirstFit ==
    (pc = "ready" /\ variant = "explicit") =>
        \A a \in ProbeSizes :
            find_fit(St, SZ(a)) =
                IF Fitting(a) = {} THEN NULL ELSE FirstIn(FreeIndex, Fitting(a))

\* C18: when the provider refuses a grow request during init (the 16-byte
\* request for the sentinels or the request for the initial chunk), init
\* returns failure and has written no metadata: the contents and the size
\* of the managed region are what they were before the call.
C18_InitFailureWritesNothing ==
    [][(last'.op = "init" /\ RefusedIn(last')) =>
          (last'.ret = -1 /\ mem' = mem /\ mem_brk' = mem_brk)]_vars

\* the nodes find_fit may visit for the adjusted size a, in scan order
ScanOrder(a) == IF variant = "explicit" THEN FreeIndex ELSE ScanFrom(a)

\* the blocks at which the scan for a returns at once: a block of exactly
\* that size (mm.c, part_000), any block large enough (part_001)
StopAt(a) == IF variant = "segfirst" THEN Fitting(a) ELSE Exact(a)

\* the walk L up to and including its first node of S, all of L when it has none
UpTo(L, S) ==
    IF \A i \in DOMAIN L : L[i] \notin S THEN L
    ELSE SubSeq(L, 1, CHOOSE i \in DOMAIN L : L[i] \in S /\ \A j \in 1 .. (i - 1) : L[j] \notin S)

\* the visited blocks that are large enough for a and waste least
TiedBest(a) == LeastOf(Range(UpTo(ScanOrder(a), StopAt(a))) \cap Fitting(a))

\* C19: in every variant, when several free blocks that find_fit visits
\* have the same minimal waste for the adjusted size asked for, find_fit
\* returns the one met earliest in scan order (nearest the list head; in
\* the segregated variants lowest class first, then nearest that head).
C19_TieGoesToEarliest ==
    pc = "ready" =>
        \A a \in {b \in ProbeSizes : Cardinality(TiedBest(b)) >= 2} :
            find_fit(St, SZ(a)) = FirstIn(ScanOrder(a), TiedBest(a))

\* two free blocks of one size, larger than the size asked for, waste
\* least; the search returned the one nearer the head and the other one
\* comes later in the same list
C19_Witness ==
    /\ pc = "ready" /\ variant = "segbest"
    /\ \E a \in ProbeSizes :
         /\ Cardinality(TiedBest(a)) >= 2
         /\ find_fit(St, SZ(a)) = headers[0]
         /\ GET_SUCC(St, headers[0]) \in TiedBest(a)
         /\ BlockSize(headers[0]) > a

\* the blocks of the heap of state s, and the one whose range holds the
\* address p
BlocksOf(s) == BlocksFrom(s, s.heap_listp + DSIZE, (s.mem_brk - mem_start_brk) \div DSIZE)
HolderIn(B, s, p) == CHOOSE b \in Range(B) : b <= p /\ p < b + GET_SIZE(s, HDRP(b))

\* the free list, in state s, in which a block of the given size belongs
ListFor(s, size) ==
    IF s.variant = "explicit" THEN ListFrom(s, s.free_listp, Fuel(s))
    ELSE ListFrom(s, s.headers[size_to_group(SZ(size))], Fuel(s))

\* from s to t the block m, of the given size in t, was pushed on its list:
\* m is the head, and behind it come the blocks the list held in s that
\* were not merged into m, in the order they had
PushedOn(s, t, m, size) ==
    ListFor(t, size) =
        <<m>> \o SelectSeq(ListFor(s, size), LAMBDA b : b < m \/ b >= m + size)

\* C20: insertion is LIFO: immediately after free(p) returns, the (possibly
\* coalesced) free block containing p is the head of its free list (the
\* single list in the explicit variant, the list of its size class in the
\* segregated variants), and the other blocks that remain in that list
\* keep their relative order.
C20_FreePushesAtHead ==
    [][(last'.op = "free" /\ last'.p # NULL) =>
          /\ GET_ALLOC(St', HDRP(HolderIn(BlocksOf(St'), St', last'.p))) = 0
          /\ PushedOn(St, St', HolderIn(BlocksOf(St'), St', last'.p),
                      GET_SIZE(St', HDRP(HolderIn(BlocksOf(St'), St', last'.p))))]_vars

\* a free put its block at the head of a list in which two other blocks
\* remain behind it
C20_Witness ==
    /\ last.op = "free" /\ last.p # NULL
    /\ Len(ListFor(St, BlockSize(last.p))) >= 3
    /\ ListFor(St, BlockSize(last.p))[1] = last.p
    /\ BlockAlloc(last.p) = 0

\* the free blocks of the heap of state s
FreeOfIn(B, s) == {B[i] : i \in {j \in DOMAIN B : GET_ALLOC(s, HDRP(B[j])) = 0}}
FreeBlocksOf(s) == FreeOfIn(BlocksOf(s), s)

\* the nodes of the free index of state s, in the order find_fit visits them
FreeIndexOf(s) ==
    IF s.variant = "explicit" THEN ListFrom(s, s.free_listp, Fuel(s)) ELSE ListsFrom(s, 0)

\* the adjusted size of the allocate just completed, and the size of the
\* free block it was placed into: the block found by find_fit, or, when the
\* heap was grown, the new bytes together with the free block that ended
\* the heap before the call
PlacedSize == SzInt(adjusted_size(last'.n))
PlacedInto ==
    IF last'.sbrk = <<>> THEN GET_SIZE(St, HDRP(last'.ret))
    ELSE SzInt(last'.sbrk[1][1]) + getFreeSizeOfTail(St)

\* what place owes for the adjusted size a put into the free block of size
\* c at bp
PlaceOk(bp, a, c) ==
    /\ c >= a
    /\ GET_ALLOC(St', HDRP(bp)) = 1
    /\ IF c - a >= MIN_FREE_BLK
       THEN /\ GET_SIZE(St', HDRP(bp)) = a
            /\ GET_ALLOC(St', HDRP(bp + a)) = 0
            /\ GET_SIZE(St', HDRP(bp + a)) = c - a
            /\ bp + a \in Range(FreeIndexOf(St'))
       ELSE /\ GET_SIZE(St', HDRP(bp)) = c
            /\ FreeBlocksOf(St') \subseteq FreeBlocksOf(St)
    /\ a <= GET_SIZE(St', HDRP(bp))
    /\ GET_SIZE(St', HDRP(bp)) < a + MIN_FREE_BLK

\* C21: when allocate places the adjusted size a into a free block of size
\* c >= a: if c - a >= 24 the returned block has size exactly a and a free
\* block of size c - a starts right after it and is in the free index;
\* otherwise the returned block keeps size c and no free block is created.
\* Hence a <= blocksize < a + 24 for every block allocate returns.
C21_SplitRule ==
    [][(last'.op = "malloc" /\ last'.ret # NULL) =>
          PlaceOk(last'.ret, PlacedSize, PlacedInto)]_vars

\* an allocate took a free block 16 bytes larger than the adjusted size
\* whole, without growing the heap
C21_Witness ==
    /\ last.op = "malloc" /\ last.ret # NULL
    /\ last.sbrk = <<>>
    /\ BlockSize(last.ret) = SzInt(adjusted_size(last.n)) + 2 * DSIZE

\* the address one block past the last block of the walk B of the heap of
\* state s: where the payload of the epilogue would start
EndOfWalk(B, s) ==
    IF B = <<>> THEN s.heap_listp + DSIZE
    ELSE B[Len(B)] + GET_SIZE(s, HDRP(B[Len(B)]))

\* the block bp of state s is well formed
BlockOk(s, bp) ==
    /\ GET_SIZE(s, HDRP(bp)) >= MIN_FREE_BLK
    /\ GET_SIZE(s, HDRP(bp)) % ALIGNMENT = 0
    /\ GET(s, FTRP(s, bp)) = GET(s, HDRP(bp))

\* the walk B covers the heap of state s from the prologue to the epilogue
HeapOk(B, s) ==
    /\ GET(s, HDRP(s.heap_listp)) = PACK(DSIZE, 1)
    /\ GET(s, s.heap_listp) = PACK(DSIZE, 1)
    /\ \A i \in DOMAIN B : BlockOk(s, B[i])
    /\ HDRP(EndOfWalk(B, s)) = s.mem_brk - WSIZE
    /\ GET(s, s.mem_brk - WSIZE) = PACK(0, 1)

\* C22: after init and after every completed call, in every variant, the
\* heap is a well-formed block sequence: from the first block after the
\* intact allocated prologue, stepping by header sizes reaches, exactly at
\* the last word of the region, an epilogue header of size 0 with the
\* allocated bit set, and every block on the way has a size >= 24 that is a
\* multiple of 8 and a footer equal to its header.
C22_HeapWellFormed ==
    pc = "ready" => HeapOk(Blocks, St)

\* a segregated allocate extended the heap by fewer than 24 bytes
C22_Witness ==
    /\ pc = "ready" /\ variant # "explicit"
    /\ last.op = "malloc" /\ last.ret # NULL
    /\ Len(last.sbrk) = 1
    /\ last.sbrk[1][2]
    /\ SzLess(last.sbrk[1][1], SZ(MIN_FREE_BLK))
    /\ Len(Blocks) >= 2

\* the walk L from a list head of state s is that of a well-formed doubly
\* linked list: it ended at NULL, no node is met twice, the head has no
\* predecessor and each further node has the node before it as predecessor
ListOk(L, s) ==
    /\ HANG \notin Range(L)
    /\ Cardinality(Range(L)) = Len(L)
    /\ (L # <<>>) => (GET_PRED(s, L[1]) = NULL)
    /\ \A i \in 1 .. (Len(L) - 1) : GET_PRED(s, L[i + 1]) = L[i]

\* the heads of the free lists of state s
ListHeads(s) ==
    IF s.variant = "explicit" THEN {s.free_listp}
    ELSE {s.headers[g] : g \in 0 .. (NLISTS - 1)}

\* C23: after init and after every completed call, every free list is a
\* well-formed doubly linked list: the head's predecessor is null, the
\* predecessor of the successor of a node is that node, and following
\* successors from the head never revisits a node, so that every find_fit
\* traversal terminates.
C23_ListsWellFormed ==
    pc = "ready" =>
        /\ \A h \in ListHeads(St) : ListOk(ListFrom(St, h, Fuel(St)), St)
        /\ \A a \in ProbeSizes : find_fit(St, SZ(a)) # HANG

\* a list of three nodes or more, the third one linked back to the second
C23_Witness ==
    /\ pc = "ready"
    /\ \E h \in ListHeads(St) :
         /\ Len(ListFrom(St, h, Fuel(St))) >= 3
         /\ GET_PRED(St, GET_SUCC(St, GET_SUCC(St, h))) = GET_SUCC(St, h)
    /\ last.op = "realloc"

\* a segregated mm_malloc of a non-zero size whose first find_fit misses
MissCase ==
    /\ last'.op = "malloc" /\ last'.n # SZ(0)
    /\ variant # "explicit"
    /\ find_fit(St, adjusted_size(last'.n)) = NULL

\* C24: in the segregated variants, when allocate(n) finds no fit it issues
\* at most one grow request, of exactly (adjusted size - T) bytes, T being
\* the size of the free block just before the epilogue (0 when that block is
\* allocated); with a free tail block the request is smaller than the
\* adjusted size, and it is not raised to CHUNKSIZE.
C24_OneRequestOfShortfall ==
    [][MissCase =>
          /\ Len(last'.sbrk) <= 1
          /\ \A i \in DOMAIN last'.sbrk :
               /\ last'.sbrk[i][1] =
                    SzSub(adjusted_size(last'.n), getFreeSizeOfTail(St))
               /\ (getFreeSizeOfTail(St) > 0) =>
                    SzLess(last'.sbrk[i][1], adjusted_size(last'.n))
               /\ SzLess(SzSub(adjusted_size(last'.n), getFreeSizeOfTail(St)),
                         SZ(CHUNKSIZE))
                    => SzLess(last'.sbrk[i][1], SZ(CHUNKSIZE))]_vars

\* a first-fit segregated allocate of 4080 bytes (adjusted to 4088) that
\* missed with a free tail block made one request, smaller than both the
\* adjusted size and CHUNKSIZE
C24_Witness ==
    /\ variant = "segfirst"
    /\ last.op = "malloc" /\ last.n = SZ(4080)
    /\ Len(last.sbrk) = 1
    /\ SzLess(SZ(0), last.sbrk[1][1])
    /\ SzLess(last.sbrk[1][1], adjusted_size(last.n))
    /\ SzLess(last.sbrk[1][1], SZ(CHUNKSIZE))

\* C25: in the segregated variants, whenever the first find_fit of allocate
\* misses, the shortfall (adjusted size less the free tail size) is strictly
\* positive; once the provider has granted the extension the second find_fit
\* returns a block, so that place is not called with a null block, and the
\* block returned is the coalesced tail block: it starts where the free tail
\* started (at the old break when the last block was allocated) and ends at
\* the new epilogue.
C25_RefitFindsTail ==
    [][MissCase =>
          /\ SzLess(SZ(getFreeSizeOfTail(St)), adjusted_size(last'.n))
          /\ last'.ub = ""
          /\ GrantedIn(last') =>
               /\ last'.ret # NULL
               /\ last'.ret = mem_brk - getFreeSizeOfTail(St)
               /\ GET_ALLOC(St', HDRP(last'.ret)) = 1
               /\ NEXT_BLKP(St', last'.ret) = mem_brk'
               /\ GET_SIZE(St', HDRP(mem_brk')) = 0]_vars

\* a best-fit segregated allocate missed with free blocks on the lists, the
\* last block of the heap among them, and returned the block that starts at
\* the old free tail
C25_Witness ==
    /\ variant = "segbest"
    /\ last.op = "malloc" /\ last.ret # NULL
    /\ Len(last.sbrk) = 1 /\ last.sbrk[1][2]
    /\ SzLess(last.sbrk[1][1], SZ(BlockSize(last.ret)))
    /\ Len(FreeIndex) >= 1
    /\ last.ret + BlockSize(last.ret) = mem_brk

\* what resize(p, n) owes, for the adjusted size a, the size old of the block
\* at p before the call and the size nsz of a free block right behind it
\* (0 when the block behind p is allocated)
ResizeOk(p, a, old, nsz) ==
    IF SzLeq(a, SZ(old))
    THEN /\ last'.ret = p /\ last'.sbrk = <<>>
    ELSE IF nsz > 0 /\ SzLeq(a, SZ(old + nsz))
    THEN /\ last'.ret = p /\ last'.sbrk = <<>>
         /\ GET_ALLOC(St', HDRP(p)) = 1
         /\ (p + old) \notin Range(FreeIndexOf(St'))
         /\ IF old + nsz - SzInt(a) >= MIN_FREE_BLK
            THEN /\ GET_SIZE(St', HDRP(p)) = SzInt(a)
                 /\ GET_ALLOC(St', HDRP(p + SzInt(a))) = 0
                 /\ GET_SIZE(St', HDRP(p + SzInt(a))) = old + nsz - SzInt(a)
                 /\ (p + SzInt(a)) \in Range(FreeIndexOf(St'))
                 /\ FreeBlocksOf(St') =
                        (FreeBlocksOf(St) \ {p + old}) \cup {p + SzInt(a)}
            ELSE /\ GET_SIZE(St', HDRP(p)) = old + nsz
                 /\ FreeBlocksOf(St') = FreeBlocksOf(St) \ {p + old}
    ELSE \/ last'.ret = NULL /\ RefusedIn(last')
         \/ /\ last'.ret \notin {NULL, p}
            /\ last'.ret \notin DOMAIN live
            /\ GET_ALLOC(St', HDRP(last'.ret)) = 1
            /\ GET_ALLOC(St', HDRP(HolderIn(BlocksOf(St'), St', p))) = 0

\* C26: resize(p, n) with p allocated and n > 0 returns p itself and makes
\* no grow request whenever the adjusted size is at most the size of the
\* block at p, or the block right behind p is free and the two sizes add up
\* to the adjusted size or more; in the second case the block behind p
\* leaves the free index, a leftover of 24 bytes or more is indexed as a
\* free block, and a smaller leftover stays in p.  Otherwise resize
\* allocates a new block and frees p (or returns null on a refused request).
C26_ResizeInPlace ==
    [][(last'.op = "realloc" /\ last'.p \in DOMAIN live /\ last'.n # SZ(0)) =>
          ResizeOk(last'.p, adjusted_size(last'.n),
                   GET_SIZE(St, HDRP(last'.p)),
                   IF GET_ALLOC(St, HDRP(NEXT_BLKP(St, last'.p))) = 0
                   THEN GET_SIZE(St, HDRP(NEXT_BLKP(St, last'.p))) ELSE 0)]_vars

\* allocate(30) then resize(p, 4080): the block of 40 bytes took the free
\* block of 4056 bytes behind it whole, the leftover being 8 bytes; the
\* footer of the 40-byte block and the header of the free block are still
\* to be read inside the payload
C26_Witness ==
    /\ nops = 2
    /\ last.op = "realloc" /\ last.n = SZ(4080)
    /\ last.ret = last.p /\ last.sbrk = <<>>
    /\ BlockSize(last.p) = 4096
    /\ GET(St, last.p + 32) = PACK(40, 1)
    /\ GET(St, last.p + 36) = PACK(4056, 0)

\* the word addresses whose content differs between the memories m and t
ChangedWords(m, t) == {w \in DOMAIN t : RdW(t, w) # RdW(m, w)}

\* the block at q, allocated in state s, is in state t where and what it
\* was: no word from its header to its footer is among the changed words W,
\* and the heap walk of t still meets it
Untouched(q, s, t, W) ==
    /\ \A w \in W : w < HDRP(q) \/ w > FTRP(s, q)
    /\ q \in Range(BlocksOf(t))
    /\ GET_ALLOC(t, HDRP(q)) = 1

\* C27: an allocate(n), free(p) or resize(p, n) call leaves every allocated
\* block other than p untouched: its address, header, footer and payload
\* bytes are after the call what they were before it, in every variant.
C27_OtherBlocksUntouched ==
    [][(last'.op \in {"malloc", "free", "realloc"}) =>
          \A q \in DOMAIN live \ {last'.p} :
              Untouched(q, St, St', ChangedWords(mem, mem'))]_vars

\* a resize moved its block behind another block the program holds, and the
\* block it left was merged into free space next to a block the program holds
C27_Witness ==
    /\ last.op = "realloc"
    /\ last.ret \notin {NULL, last.p}
    /\ \E q \in DOMAIN live \ {last.ret} : q + BlockSize(q) = last.ret
    /\ \E q \in DOMAIN live \ {last.ret} :
           HolderIn(Blocks, St, last.p) + BlockSize(HolderIn(Blocks, St, last.p)) = q

\* the block structure of state s: the address, size and allocated bit of
\* each block in address order, and the set of blocks in the free index
ShapeOf(B, s) ==
    <<[i \in DOMAIN B |-> <<B[i], GET_SIZE(s, HDRP(B[i])), GET_ALLOC(s, HDRP(B[i]))>>],
      Range(FreeIndexOf(s))>>

\* the states t and s have the same block structure
SameShape(t, s) == ShapeOf(BlocksOf(t), t) = ShapeOf(BlocksOf(s), s)

\* C28: in every variant, when p = allocate(n) is satisfied from an existing
\* free block (no grow request), free(p) called right afterwards restores
\* the block structure that held before the allocate: the same block sizes
\* and allocated bits in address order, and the same set of blocks in the
\* free index.
C28_AllocThenFreeRestores ==
    [][(/\ last'.op = "malloc" /\ last'.ret # NULL /\ last'.sbrk = <<>>
        /\ mem_brk' = mem_brk) =>
          SameShape(mm_free(St', last'.ret), St)]_vars

\* the last two calls were an allocate served without growth from a heap
\* with a free block in front of other blocks, and the free of its block;
\* the block structure is the one recorded two calls before
C28_Witness ==
    /\ Len(hist) >= 4
    /\ hist[Len(hist)].op = "free"
    /\ hist[Len(hist) - 1].op = "malloc"
    /\ hist[Len(hist) - 1].ret = hist[Len(hist)].p
    /\ hist[Len(hist) - 1].sbrk = <<>>
    /\ Len(FreeIndex) >= 2
    /\ \E q \in DOMAIN live : q > hist[Len(hist)].p

====
